---------------------------- MODULE Spec2Model ----------------------------
(***************************************************************************)
(* A model of the JSON parser (src/src/parser.rs), the value tree          *)
(* (src/src/ast.rs) and the printer (src/src/printer.rs).                  *)
(*                                                                         *)
(* Text is a sequence of Unicode scalar values (integers), as the parser   *)
(* reads it through Peekable<Chars>.  A cursor is the 1-based index of the *)
(* next unread symbol; Len(s) + 1 is the end of input.                     *)
(***************************************************************************)
EXTENDS Integers, Sequences, FiniteSets, TLC

(***************************************************************************)
(* Symbols.                                                                *)
(***************************************************************************)
Ch ==
    [ quote |-> 34, backslash |-> 92, slash |-> 47,
      lbracket |-> 91, rbracket |-> 93, lbrace |-> 123, rbrace |-> 125,
      comma |-> 44, colon |-> 58,
      space |-> 32, tab |-> 9, lf |-> 10, cr |-> 13, ff |-> 12, bs |-> 8,
      minus |-> 45, plus |-> 43, dot |-> 46, zero |-> 48, one |-> 49,
      nine |-> 57, e |-> 101, E |-> 69,
      a |-> 97, b |-> 98, d |-> 100, f |-> 102, i |-> 105, A |-> 65,
      F |-> 70, l |-> 108, n |-> 110, r |-> 114, s |-> 115, t |-> 116,
      u |-> 117, x |-> 120 ]

\* " \n\r\t" of skip_whitespace
Whitespace == {Ch.space, Ch.lf, Ch.cr, Ch.tab}

IsDigit(c) == c >= Ch.zero /\ c <= Ch.nine

\* "123456789" of parse_number
IsNonZeroDigit(c) == c > Ch.zero /\ c <= Ch.nine

\* char::is_ascii_hexdigit
IsHexDigit(c) ==
    \/ IsDigit(c)
    \/ (c >= Ch.a /\ c <= Ch.f)
    \/ (c >= Ch.A /\ c <= Ch.F)

\* the digit value u16::from_str_radix(_, 16) gives one hex digit
HexVal(c) ==
    IF IsDigit(c) THEN c - Ch.zero
    ELSE IF c >= Ch.a /\ c <= Ch.f THEN c - Ch.a + 10
    ELSE c - Ch.A + 10

(***************************************************************************)
(* The value tree (ast.rs).  An Object is a BTreeMap<String, Json>: here   *)
(* the sequence of its entries in the map's iteration order.               *)
(***************************************************************************)
JNull == [type |-> "Null"]
JBoolean(b) == [type |-> "Boolean", b |-> b]
JString(s) == [type |-> "String", s |-> s]
JNumber(n) == [type |-> "Number", n |-> n]
JArray(items) == [type |-> "Array", items |-> items]
JObject(props) == [type |-> "Object", props |-> props]

\* Ord for String: lexicographic over the bytes of the UTF-8 encoding, which
\* orders strings as the lexicographic order over their scalar values does.
RECURSIVE StrLess(_, _)
StrLess(x, y) ==
    IF y = <<>> THEN FALSE
    ELSE IF x = <<>> THEN TRUE
    ELSE IF Head(x) # Head(y) THEN Head(x) < Head(y)
    ELSE StrLess(Tail(x), Tail(y))

\* BTreeMap::insert as the append of an insertion-ordered map would do it
RECURSIVE BTreeInsert_Unsorted(_, _, _)
BTreeInsert_Unsorted(props, key, value) ==
    IF props = <<>> THEN << [key |-> key, value |-> value] >>
    ELSE IF Head(props).key = key
         THEN << [key |-> key, value |-> value] >> \o Tail(props)
         ELSE << Head(props) >> \o BTreeInsert_Unsorted(Tail(props), key, value)

\* BTreeMap::insert keeping the first value of a key already present
RECURSIVE BTreeInsert_KeepFirst(_, _, _)
BTreeInsert_KeepFirst(props, key, value) ==
    IF props = <<>> THEN << [key |-> key, value |-> value] >>
    ELSE IF Head(props).key = key THEN props
    ELSE IF StrLess(key, Head(props).key)
         THEN << [key |-> key, value |-> value] >> \o props
         ELSE << Head(props) >> \o BTreeInsert_KeepFirst(Tail(props), key, value)

\* BTreeMap::insert: the entry takes its place in key order; a key already
\* present keeps its place and takes the new value.
RECURSIVE BTreeInsert(_, _, _)
BTreeInsert(props, key, value) ==
    IF props = <<>> THEN << [key |-> key, value |-> value] >>
    ELSE IF Head(props).key = key
         THEN << [key |-> key, value |-> value] >> \o Tail(props)
    ELSE IF StrLess(key, Head(props).key)
         THEN << [key |-> key, value |-> value] >> \o props
         ELSE << Head(props) >> \o BTreeInsert(Tail(props), key, value)

(***************************************************************************)
(* f64.  A double is modelled by its class and, when finite and non-zero,  *)
(* by the shortest decimal digits that identify it: the value is           *)
(* digits * 10^exp with digits a non-empty digit sequence without leading  *)
(* or trailing zero.  The literals of the model carry far fewer than 15    *)
(* significant digits, so in the normal range the shortest digits of the   *)
(* nearest double are the literal's own significant digits.                *)
(***************************************************************************)
F64Zero(neg) == [cls |-> "zero", neg |-> neg, digits |-> <<>>, exp |-> 0]
F64Inf(neg) == [cls |-> "inf", neg |-> neg, digits |-> <<>>, exp |-> 0]
F64Fin(neg, digits, exp) ==
    [cls |-> "fin", neg |-> neg, digits |-> digits, exp |-> exp]

\* f64's PartialEq: -0.0 == 0.0, every other pair compares by value
F64Eq(x, y) ==
    IF x.cls = "zero" /\ y.cls = "zero" THEN TRUE ELSE x = y

RECURSIVE StripLeadingZeros(_)
StripLeadingZeros(ds) ==
    IF ds # <<>> /\ Head(ds) = 0 THEN StripLeadingZeros(Tail(ds)) ELSE ds

\* the number of zeros at the end of ds
RECURSIVE TrailingZeros(_)
TrailingZeros(ds) ==
    IF ds # <<>> /\ ds[Len(ds)] = 0
    THEN 1 + TrailingZeros(SubSeq(ds, 1, Len(ds) - 1))
    ELSE 0

RECURSIVE DigitsValue(_)
DigitsValue(ds) ==
    IF ds = <<>> THEN 0 ELSE 10 * DigitsValue(SubSeq(ds, 1, Len(ds) - 1)) + ds[Len(ds)]

\* The first 17 significant digits of 2^1024 - 2^970, the least magnitude
\* that rounds to infinity, and its decimal exponent.
F64OverflowDigits == <<1, 7, 9, 7, 6, 9, 3, 1, 3, 4, 8, 6, 2, 3, 1, 5, 8>>
F64OverflowExp10 == 308
\* Below 10^F64UnderflowExp10 every magnitude rounds to zero.
F64UnderflowExp10 == -324

\* ds (at most 17 digits, no leading zero) read as 0.ds is greater than
\* 0.F64OverflowDigits
RECURSIVE DigitsGreater(_, _)
DigitsGreater(ds, ref) ==
    IF ds = <<>> THEN FALSE
    ELSE IF ref = <<>> THEN TRUE
    ELSE IF Head(ds) # Head(ref) THEN Head(ds) > Head(ref)
    ELSE DigitsGreater(Tail(ds), Tail(ref))


Zeros(k) == [j \in 1..k |-> 0]

\* the index of the first element of s in set, 0 when there is none
FirstIn(s, set) ==
    IF \E j \in 1..Len(s) : s[j] \in set
    THEN CHOOSE j \in 1..Len(s) : s[j] \in set /\ \A h \in 1..(j - 1) : s[h] \notin set
    ELSE 0

DigitVals(cs) == [j \in 1..Len(cs) |-> cs[j] - Ch.zero]
DigitChars(ds) == [j \in 1..Len(ds) |-> ds[j] + Ch.zero]

\* str::parse::<f64> on a literal the number grammar accepted: the nearest
\* double, infinity beyond the largest one, zero below the smallest.
F64Parse(lit) ==
    LET neg == lit # <<>> /\ lit[1] = Ch.minus
        body == IF neg THEN Tail(lit) ELSE lit
        ePos == FirstIn(body, {Ch.e, Ch.E})
        mant == IF ePos = 0 THEN body ELSE SubSeq(body, 1, ePos - 1)
        expPart == IF ePos = 0 THEN <<>> ELSE SubSeq(body, ePos + 1, Len(body))
        dotPos == FirstIn(mant, {Ch.dot})
        intDs == IF dotPos = 0 THEN mant ELSE SubSeq(mant, 1, dotPos - 1)
        fracDs == IF dotPos = 0 THEN <<>> ELSE SubSeq(mant, dotPos + 1, Len(mant))
        expSigned == expPart # <<>> /\ expPart[1] \in {Ch.minus, Ch.plus}
        expNeg == expPart # <<>> /\ expPart[1] = Ch.minus
        expDs == IF expSigned THEN Tail(expPart) ELSE expPart
        expVal == DigitsValue(DigitVals(StripLeadingZeros(expDs)))
        all == StripLeadingZeros(DigitVals(intDs \o fracDs))
        tz == TrailingZeros(all)
        ds == SubSeq(all, 1, Len(all) - tz)
        e10 == (IF expNeg THEN 0 - expVal ELSE expVal) - Len(fracDs) + tz
        sci == Len(ds) + e10 - 1
    IN  IF ds = <<>> THEN F64Zero(neg)
        ELSE IF sci > F64OverflowExp10
                \/ (sci = F64OverflowExp10 /\ DigitsGreater(ds, F64OverflowDigits))
             THEN F64Inf(neg)
        ELSE IF sci < F64UnderflowExp10 THEN F64Zero(neg)
        ELSE F64Fin(neg, ds, e10)

\* "inf" and "NaN" are what Display writes for the non-finite doubles
InfText == <<Ch.i, Ch.n, Ch.f>>

\* Display for f64 ("{number}"): the shortest digits that read back as the
\* same double, never in exponent notation, an integral value without ".0"
F64Display(x) ==
    LET sign == IF x.neg THEN <<Ch.minus>> ELSE <<>>
        ds == DigitChars(x.digits)
        k == Len(ds)
    IN  IF x.cls = "zero" THEN sign \o <<Ch.zero>>
        ELSE IF x.cls = "inf" THEN sign \o InfText
        ELSE IF x.exp >= 0 THEN sign \o ds \o DigitChars(Zeros(x.exp))
        ELSE IF k > 0 - x.exp
             THEN sign \o SubSeq(ds, 1, k + x.exp) \o <<Ch.dot>>
                       \o SubSeq(ds, k + x.exp + 1, k)
        ELSE sign \o <<Ch.zero, Ch.dot>> \o DigitChars(Zeros(0 - x.exp - k)) \o ds

(***************************************************************************)
(* Results.  Result<_, JsonParseError> with the cursor it leaves; "panic"  *)
(* is the abort of the thread by a failed unwrap(), which no caller of     *)
(* parse receives as a value.                                              *)
(***************************************************************************)
NoVal == [type |-> "None"]

Ok(v, p) == [kind |-> "ok", val |-> v, msg |-> "", args |-> <<>>, pos |-> p]

\* fail(message): the message text, the characters formatted into it
Fail(m, as, p) == [kind |-> "err", val |-> NoVal, msg |-> m, args |-> as, pos |-> p]

Panic(p) == [kind |-> "panic", val |-> NoVal, msg |-> "unwrap on None", args |-> <<>>, pos |-> p]

EndOfInput == "Unexpected end of input"

\* rest.peek() is Some
HasNext(s, p) == p <= Len(s)

RECURSIVE skip_whitespace(_, _)
skip_whitespace(s, p) ==
    IF HasNext(s, p) /\ s[p] \in Whitespace THEN skip_whitespace(s, p + 1) ELSE p

\* consume comparing the literal with the lookahead only: the first
\* character is peeked at, no symbol is taken from the input
consume_Peek(s, p, literal, j, json_value) ==
    IF ~HasNext(s, p) THEN Fail(EndOfInput, <<>>, p)
    ELSE IF s[p] = literal[j] THEN Ok(json_value, p)
    ELSE Fail("Expected '{expected_char}', but found '{actual_char}'",
              <<literal[j], s[p]>>, p)

\* consume taking the literal for read once its first character is: the
\* symbols behind it are skipped without being compared
consume_Unchecked(s, p, literal, j, json_value) ==
    IF ~HasNext(s, p) THEN Fail(EndOfInput, <<>>, p)
    ELSE IF s[p] = literal[j] THEN Ok(json_value, p + Len(literal) - j + 1)
    ELSE Fail("Expected '{expected_char}', but found '{actual_char}'",
              <<literal[j], s[p]>>, p + 1)

\* consume(rest, literal, json_value), from the j-th character of literal
RECURSIVE consume(_, _, _, _, _)
consume(s, p, literal, j, json_value) ==
    IF j > Len(literal) THEN Ok(json_value, p)
    ELSE IF ~HasNext(s, p) THEN Fail(EndOfInput, <<>>, p)
    ELSE IF s[p] = literal[j] THEN consume(s, p + 1, literal, j + 1, json_value)
    ELSE Fail("Expected '{expected_char}', but found '{actual_char}'",
              <<literal[j], s[p]>>, p + 1)

\* rest.next_if(predicate) succeeds
NextIs(s, p, set) == HasNext(s, p) /\ s[p] \in set

\* while advance_if(|c| "0123456789".contains(c)) {}
RECURSIVE DigitRun(_, _)
DigitRun(s, p) == IF HasNext(s, p) /\ IsDigit(s[p]) THEN DigitRun(s, p + 1) ELSE p

\* the integer part as a grammar allowing leading zeros would read it
IntegerPart_LeadingZeros(s, p) ==
    IF HasNext(s, p) /\ IsDigit(s[p]) THEN Ok(NoVal, DigitRun(s, p + 1))
    ELSE IF HasNext(s, p) THEN Fail("Unexpected character in number: {}", <<s[p]>>, p)
    ELSE Panic(p)

\* parse_number, the integer part: a single 0, or a non-zero digit and any
\* digits.  With neither, the message is built from rest.peek().unwrap(),
\* which aborts at the end of input.
IntegerPart(s, p) ==
    IF NextIs(s, p, {Ch.zero}) THEN Ok(NoVal, p + 1)
    ELSE IF HasNext(s, p) /\ IsNonZeroDigit(s[p]) THEN Ok(NoVal, DigitRun(s, p + 1))
    ELSE IF HasNext(s, p) THEN Fail("Unexpected character in number: {}", <<s[p]>>, p)
    ELSE Panic(p)

\* parse_number, the optional fraction: '.' and at least one digit
FractionPart(s, p) ==
    IF NextIs(s, p, {Ch.dot})
    THEN IF HasNext(s, p + 1) /\ IsDigit(s[p + 1])
         THEN Ok(NoVal, DigitRun(s, p + 2))
         ELSE Fail("Missing digits after point in number", <<>>, p + 1)
    ELSE Ok(NoVal, p)

\* parse_number, the optional exponent: e or E, an optional sign, digits
ExponentPart(s, p) ==
    IF NextIs(s, p, {Ch.e, Ch.E})
    THEN LET q == IF NextIs(s, p + 1, {Ch.minus, Ch.plus}) THEN p + 2 ELSE p + 1
         IN  IF HasNext(s, q) /\ IsDigit(s[q])
             THEN Ok(NoVal, DigitRun(s, q + 1))
             ELSE Fail("Missing digits after exponent in number", <<>>, q)
    ELSE Ok(NoVal, p)

\* parse_number behind the exponent.  The grammar admits only literals that
\* str::parse::<f64> accepts, so the Err arm of the final match is never
\* taken.
NumberEnd(s, p, ep) ==
    IF ep.kind # "ok" THEN ep
    ELSE Ok(JNumber(F64Parse(SubSeq(s, p, ep.pos - 1))), ep.pos)

\* parse_number behind the fraction
NumberExponent(s, p, fp) ==
    IF fp.kind # "ok" THEN fp ELSE NumberEnd(s, p, ExponentPart(s, fp.pos))

\* parse_number behind the integer part
NumberFraction(s, p, ip) ==
    IF ip.kind # "ok" THEN ip ELSE NumberExponent(s, p, FractionPart(s, ip.pos))

parse_number(s, p) ==
    NumberFraction(s, p, IntegerPart(s, IF NextIs(s, p, {Ch.minus}) THEN p + 1 ELSE p))

(***************************************************************************)
(* Strings and their escapes.                                              *)
(***************************************************************************)
IsHighSurrogate(u) == u >= 55296 /\ u <= 56319     \* 0xD800..=0xDBFF
IsLowSurrogate(u) == u >= 56320 /\ u <= 57343      \* 0xDC00..=0xDFFF

\* char::decode_utf16 reading every unit as a character of its own
DecodeUtf16_Lossy(units) == [ok |-> TRUE, chars |-> units]

\* a decoded character put before the characters decoded behind it
Decoded(c, rest) ==
    [ok |-> rest.ok, chars |-> IF rest.ok THEN <<c>> \o rest.chars ELSE <<>>]

\* char::decode_utf16 over the code units of one run of escapes: a unit
\* outside the surrogate range is its own character, a high surrogate and
\* the low surrogate right behind it are one character, any other surrogate
\* is an Err, which parse_string_escape_char turns into its failure.
RECURSIVE DecodeUtf16(_)
DecodeUtf16(units) ==
    IF units = <<>> THEN [ok |-> TRUE, chars |-> <<>>]
    ELSE IF IsHighSurrogate(units[1]) /\ Len(units) >= 2 /\ IsLowSurrogate(units[2])
         THEN Decoded(65536 + (units[1] - 55296) * 1024 + (units[2] - 56320),
                      DecodeUtf16(Tail(Tail(units))))
    ELSE IF IsHighSurrogate(units[1]) \/ IsLowSurrogate(units[1])
         THEN [ok |-> FALSE, chars |-> <<>>]
    ELSE Decoded(units[1], DecodeUtf16(Tail(units)))

\* the loop of parse_utf16_hex_escaped_codepoint with j digits read so far
\* and their value; four hex digits always fit a u16
RECURSIVE HexDigits(_, _, _, _)
HexDigits(s, p, j, unit) ==
    IF j = 4 THEN Ok(unit, p)
    ELSE IF ~HasNext(s, p) THEN Fail(EndOfInput, <<>>, p)
    ELSE IF IsHexDigit(s[p]) THEN HexDigits(s, p + 1, j + 1, unit * 16 + HexVal(s[p]))
    ELSE Fail("Invalid hex digit in unicode escape sequence", <<>>, p + 1)

parse_utf16_hex_escaped_codepoint(s, p) == HexDigits(s, p, 0, 0)

\* the escape table letting an unknown escape stand for its own character
ShortEscape_Lenient(c) ==
    IF c = Ch.b THEN 8 ELSE IF c = Ch.f THEN 12 ELSE IF c = Ch.n THEN 10
    ELSE IF c = Ch.r THEN 13 ELSE IF c = Ch.t THEN 9 ELSE c

\* the arms of parse_string_escape_as_codepoint that give a code unit at
\* once; -1 for a character of no such arm
ShortEscape(c) ==
    IF c = Ch.quote THEN 34
    ELSE IF c = Ch.backslash THEN 92
    ELSE IF c = Ch.slash THEN 47
    ELSE IF c = Ch.b THEN 8
    ELSE IF c = Ch.f THEN 12
    ELSE IF c = Ch.n THEN 10
    ELSE IF c = Ch.r THEN 13
    ELSE IF c = Ch.t THEN 9
    ELSE -1

parse_string_escape_as_codepoint(s, p) ==
    IF ~HasNext(s, p) THEN Fail(EndOfInput, <<>>, p)
    ELSE IF s[p] = Ch.u THEN parse_utf16_hex_escaped_codepoint(s, p + 1)
    ELSE IF ShortEscape(s[p]) >= 0 THEN Ok(ShortEscape(s[p]), p + 1)
    ELSE Fail("Invalid escape sequence in string", <<>>, p + 1)

RECURSIVE EscapeRun(_, _, _)
RECURSIVE AfterCodepoint(_, _, _)

\* the loop of parse_string_escape_char behind codepoints.push(cp?): while
\* the next symbol is a backslash it is consumed and the run goes on
AfterCodepoint(s, codepoints, cp) ==
    IF cp.kind # "ok" THEN cp
    ELSE IF ~HasNext(s, cp.pos) THEN Fail(EndOfInput, <<>>, cp.pos)
    ELSE IF s[cp.pos] = Ch.backslash
         THEN EscapeRun(s, cp.pos + 1, Append(codepoints, cp.val))
    ELSE Ok(Append(codepoints, cp.val), cp.pos)

\* the loop of parse_string_escape_char, the cursor behind a backslash; the
\* result carries the code units of the whole run of escapes
EscapeRun(s, p, codepoints) ==
    AfterCodepoint(s, codepoints, parse_string_escape_as_codepoint(s, p))

\* the for loop of parse_string_escape_char over the decoded run
DecodedRun(p, decoded) ==
    IF decoded.ok THEN Ok(decoded.chars, p)
    ELSE Fail("Unpaired UTF-16 surrogate in string", <<>>, p)

\* parse_string_escape_char behind its first loop
AfterRun(run) ==
    IF run.kind # "ok" THEN run ELSE DecodedRun(run.pos, DecodeUtf16(run.val))

parse_string_escape_char(s, p) == AfterRun(EscapeRun(s, p, <<>>))

RECURSIVE StringBody(_, _, _)
RECURSIVE AfterEscape(_, _, _)

\* parsed_string.push_str(&parse_string_escape_char(rest)?)
AfterEscape(s, parsed_string, esc) ==
    IF esc.kind # "ok" THEN esc ELSE StringBody(s, esc.pos, parsed_string \o esc.val)

\* the loop of parse_string, the cursor behind the opening quote
StringBody(s, p, parsed_string) ==
    IF ~HasNext(s, p) THEN Fail(EndOfInput, <<>>, p)
    ELSE IF s[p] = Ch.quote THEN Ok(parsed_string, p + 1)
    ELSE IF s[p] = Ch.backslash
         THEN AfterEscape(s, parsed_string, parse_string_escape_char(s, p + 1))
    ELSE StringBody(s, p + 1, Append(parsed_string, s[p]))

parse_string(s, p) ==
    IF ~HasNext(s, p) THEN Fail(EndOfInput, <<>>, p)
    ELSE IF s[p] # Ch.quote THEN Fail("Expected a string, found '{}'", <<s[p]>>, p + 1)
    ELSE StringBody(s, p + 1, <<>>)

\* Ok(Json::String(parsed_string)) behind parse_string(rest)?
AsStringValue(parsed_string) ==
    IF parsed_string.kind # "ok" THEN parsed_string
    ELSE Ok(JString(parsed_string.val), parsed_string.pos)

parse_string_value(s, p) == AsStringValue(parse_string(s, p))

(***************************************************************************)
(* Values, arrays and objects.                                             *)
(***************************************************************************)
NullLit == <<Ch.n, Ch.u, Ch.l, Ch.l>>
TrueLit == <<Ch.t, Ch.r, Ch.u, Ch.e>>
FalseLit == <<Ch.f, Ch.a, Ch.l, Ch.s, Ch.e>>

\* the result with the cursor moved by the skip_whitespace that parse_value
\* runs before it returns the value or the error
ThenSkip(s, r) == IF r.kind = "panic" THEN r ELSE [r EXCEPT !.pos = skip_whitespace(s, r.pos)]

RECURSIVE parse_value(_, _)
RECURSIVE ValueAt(_, _)
RECURSIVE parse_array(_, _)
RECURSIVE ArrayAt(_, _)
RECURSIVE ArrayItems(_, _, _)
RECURSIVE AfterItem(_, _, _)
RECURSIVE parse_object(_, _)
RECURSIVE ObjectAt(_, _)
RECURSIVE ObjectProperties(_, _, _)
RECURSIVE AfterKey(_, _, _)
RECURSIVE AfterColon(_, _, _, _)
RECURSIVE AfterValue(_, _, _, _)

\* parse_value behind its first skip_whitespace: the match on the lookahead
ValueAt(s, p) ==
    IF ~HasNext(s, p) THEN Fail(EndOfInput, <<>>, p)
    ELSE ThenSkip(s,
        IF s[p] = Ch.n THEN consume(s, p, NullLit, 1, JNull)
        ELSE IF s[p] = Ch.t THEN consume(s, p, TrueLit, 1, JBoolean(TRUE))
        ELSE IF s[p] = Ch.f THEN consume(s, p, FalseLit, 1, JBoolean(FALSE))
        ELSE IF s[p] = Ch.minus \/ IsDigit(s[p]) THEN parse_number(s, p)
        ELSE IF s[p] = Ch.quote THEN parse_string_value(s, p)
        ELSE IF s[p] = Ch.lbracket THEN parse_array(s, p)
        ELSE IF s[p] = Ch.lbrace THEN parse_object(s, p)
        ELSE Fail("Unexpected character: {unexpected_char}", <<s[p]>>, p))

parse_value(s, p) == ValueAt(s, skip_whitespace(s, p))

\* the loop of parse_array behind let item = parse_value(rest)?
AfterItem(s, items, item) ==
    IF item.kind # "ok" THEN item
    ELSE IF ~HasNext(s, item.pos) THEN Fail(EndOfInput, <<>>, item.pos)
    ELSE IF s[item.pos] = Ch.rbracket
         THEN Ok(JArray(Append(items, item.val)), item.pos + 1)
    ELSE IF s[item.pos] = Ch.comma
         THEN ArrayItems(s, item.pos + 1, Append(items, item.val))
    ELSE Fail("Expected ',' or ']', found '{unexpected_char}'",
              <<s[item.pos]>>, item.pos + 1)

\* the loop of parse_array, the cursor at an item
ArrayItems(s, p, items) == AfterItem(s, items, parse_value(s, p))

\* parse_array behind '[' and skip_whitespace
ArrayAt(s, p) ==
    IF ~HasNext(s, p) THEN Fail(EndOfInput, <<>>, p)
    ELSE IF s[p] = Ch.rbracket THEN Ok(JArray(<<>>), p + 1)
    ELSE ArrayItems(s, p, <<>>)

parse_array(s, p) ==
    IF ~HasNext(s, p) THEN Fail(EndOfInput, <<>>, p)
    ELSE IF s[p] # Ch.lbracket THEN Fail("Expected array", <<>>, p + 1)
    ELSE ArrayAt(s, skip_whitespace(s, p + 1))

\* the loop of parse_object behind let value = parse_value(rest)?: the
\* insert, then '}' or ',' and skip_whitespace
AfterValue(s, properties, key, value) ==
    IF value.kind # "ok" THEN value
    ELSE IF ~HasNext(s, value.pos) THEN Fail(EndOfInput, <<>>, value.pos)
    ELSE IF s[value.pos] = Ch.rbrace
         THEN Ok(JObject(BTreeInsert(properties, key, value.val)), value.pos + 1)
    ELSE IF s[value.pos] = Ch.comma
         THEN ObjectProperties(s, skip_whitespace(s, value.pos + 1),
                               BTreeInsert(properties, key, value.val))
    ELSE Fail("Expected ',' or '}}', found '{unexpected_char}'",
              <<s[value.pos]>>, value.pos + 1)

\* the loop of parse_object behind the key and skip_whitespace: the colon
AfterColon(s, properties, key, p) ==
    IF ~HasNext(s, p) THEN Fail(EndOfInput, <<>>, p)
    ELSE IF s[p] # Ch.colon THEN Fail("Missing colon after object key", <<>>, p + 1)
    ELSE AfterValue(s, properties, key, parse_value(s, p + 1))

\* the loop of parse_object behind let key = parse_string(rest)?
AfterKey(s, properties, key) ==
    IF key.kind # "ok" THEN key
    ELSE AfterColon(s, properties, key.val, skip_whitespace(s, key.pos))

\* the loop of parse_object, the cursor at a key
ObjectProperties(s, p, properties) == AfterKey(s, properties, parse_string(s, p))

\* parse_object behind '{' and skip_whitespace
ObjectAt(s, p) ==
    IF ~HasNext(s, p) THEN Fail(EndOfInput, <<>>, p)
    ELSE IF s[p] = Ch.rbrace THEN Ok(JObject(<<>>), p + 1)
    ELSE ObjectProperties(s, p, <<>>)

parse_object(s, p) ==
    IF ~HasNext(s, p) THEN Fail(EndOfInput, <<>>, p)
    ELSE IF s[p] # Ch.lbrace THEN Fail("Expected array", <<>>, p + 1)
    ELSE ObjectAt(s, skip_whitespace(s, p + 1))

\* parse behind let parsed = parse_value(&mut rest)?, keeping any text
NothingLeft_IgnoreRest(json, parsed) == parsed

\* parse behind let parsed = parse_value(&mut rest)?: Ok only with nothing
\* left under the cursor; rest.count() counts the peeked symbol too
NothingLeft(json, parsed) ==
    IF parsed.kind # "ok" THEN parsed
    ELSE IF HasNext(json, parsed.pos)
         THEN Fail("Unexpected character: {unexpected_char}, {} chars remaining",
                   <<json[parsed.pos], Len(json) - parsed.pos + 1>>, parsed.pos)
    ELSE parsed

parse(json) == NothingLeft(json, parse_value(json, 1))

(***************************************************************************)
(* The printer (printer.rs).                                               *)
(***************************************************************************)
\* one digit of "{:X}"
HexDigitUpper(v) == IF v < 10 THEN Ch.zero + v ELSE Ch.A + (v - 10)

\* format!("\\u{:04X}", unit) for a 16-bit code unit
UnicodeEscape(unit) ==
    << Ch.backslash, Ch.u,
       HexDigitUpper(unit \div 4096), HexDigitUpper((unit \div 256) % 16),
       HexDigitUpper((unit \div 16) % 16), HexDigitUpper(unit % 16) >>

\* the match of display_json_string escaping only the quote and the backslash
EscapeChar_NoControl(c) ==
    IF c = Ch.backslash THEN <<Ch.backslash, Ch.backslash>>
    ELSE IF c = Ch.quote THEN <<Ch.backslash, Ch.quote>>
    ELSE <<c>>

\* the match of display_json_string without its arm for the backslash
EscapeChar_RawBackslash(c) ==
    IF c = Ch.quote THEN <<Ch.backslash, Ch.quote>>
    ELSE IF c = Ch.lf THEN <<Ch.backslash, Ch.n>>
    ELSE IF c = Ch.cr THEN <<Ch.backslash, Ch.r>>
    ELSE IF c = Ch.tab THEN <<Ch.backslash, Ch.t>>
    ELSE IF c = Ch.ff THEN <<Ch.backslash, Ch.f>>
    ELSE IF c = Ch.bs THEN <<Ch.backslash, Ch.b>>
    ELSE IF c >= 0 /\ c <= 31 THEN UnicodeEscape(c)
    ELSE <<c>>

\* the match of display_json_string on one character
EscapeChar(c) ==
    IF c = Ch.backslash THEN <<Ch.backslash, Ch.backslash>>
    ELSE IF c = Ch.quote THEN <<Ch.backslash, Ch.quote>>
    ELSE IF c = Ch.lf THEN <<Ch.backslash, Ch.n>>
    ELSE IF c = Ch.cr THEN <<Ch.backslash, Ch.r>>
    ELSE IF c = Ch.tab THEN <<Ch.backslash, Ch.t>>
    ELSE IF c = Ch.ff THEN <<Ch.backslash, Ch.f>>
    ELSE IF c = Ch.bs THEN <<Ch.backslash, Ch.b>>
    ELSE IF c >= 0 /\ c <= 31 THEN UnicodeEscape(c)
    ELSE <<c>>

RECURSIVE EscapeAll(_)
EscapeAll(string) ==
    IF string = <<>> THEN <<>> ELSE EscapeChar(Head(string)) \o EscapeAll(Tail(string))

display_json_string(string) == <<Ch.quote>> \o EscapeAll(string) \o <<Ch.quote>>

Spaces(k) == [j \in 1..k |-> Ch.space]

RECURSIVE display_json(_, _, _)
RECURSIVE ArrayLines(_, _, _, _)
RECURSIVE ObjectLines(_, _, _, _)

\* the for loop of display_json_array writing the comma behind every item,
\* the last one too
RECURSIVE ArrayLines_TrailingComma(_, _, _, _)
ArrayLines_TrailingComma(items, index, indent, level) ==
    IF index > Len(items) THEN <<>>
    ELSE Spaces((level + 1) * indent)
         \o display_json(items[index], indent, level + 1)
         \o <<Ch.comma, Ch.lf>>
         \o ArrayLines_TrailingComma(items, index + 1, indent, level)

\* the for loop of display_json_array from the index-th item on
ArrayLines(items, index, indent, level) ==
    IF index > Len(items) THEN <<>>
    ELSE Spaces((level + 1) * indent)
         \o display_json(items[index], indent, level + 1)
         \o (IF index < Len(items) THEN <<Ch.comma>> ELSE <<>>)
         \o <<Ch.lf>>
         \o ArrayLines(items, index + 1, indent, level)

display_json_array(items, indent, level) ==
    IF items = <<>> THEN <<Ch.lbracket, Ch.rbracket>>
    ELSE <<Ch.lbracket, Ch.lf>>
         \o ArrayLines(items, 1, indent, level)
         \o Spaces(level * indent) \o <<Ch.rbracket>>

\* the for loop of display_json_object writing each entry without the line
\* feed and without the space behind the colon
RECURSIVE ObjectLines_Compact(_, _, _, _)
ObjectLines_Compact(object, index, indent, level) ==
    IF index > Len(object) THEN <<>>
    ELSE display_json_string(object[index].key)
         \o <<Ch.colon>>
         \o display_json(object[index].value, indent, level + 1)
         \o (IF index < Len(object) THEN <<Ch.comma>> ELSE <<>>)
         \o ObjectLines_Compact(object, index + 1, indent, level)

\* the for loop of display_json_object over the map's entries in iteration
\* order, from the index-th entry on
ObjectLines(object, index, indent, level) ==
    IF index > Len(object) THEN <<>>
    ELSE Spaces((level + 1) * indent)
         \o display_json_string(object[index].key)
         \o <<Ch.colon, Ch.space>>
         \o display_json(object[index].value, indent, level + 1)
         \o (IF index < Len(object) THEN <<Ch.comma>> ELSE <<>>)
         \o <<Ch.lf>>
         \o ObjectLines(object, index + 1, indent, level)

display_json_object(object, indent, level) ==
    IF object = <<>> THEN <<Ch.lbrace, Ch.rbrace>>
    ELSE <<Ch.lbrace, Ch.lf>>
         \o ObjectLines(object, 1, indent, level)
         \o Spaces(level * indent) \o <<Ch.rbrace>>

display_json(value, indent, level) ==
    IF value.type = "Null" THEN NullLit
    ELSE IF value.type = "Boolean" THEN (IF value.b THEN TrueLit ELSE FalseLit)
    ELSE IF value.type = "String" THEN display_json_string(value.s)
    ELSE IF value.type = "Number" THEN F64Display(value.n)
    ELSE IF value.type = "Array" THEN display_json_array(value.items, indent, level)
    ELSE display_json_object(value.props, indent, level)

json_to_string(value, indent) == display_json(value, indent, 0)

\* #[derive(PartialEq)] on Json: variant by variant, numbers by f64's ==
RECURSIVE JsonEq(_, _)
JsonEq(x, y) ==
    IF x.type # y.type THEN FALSE
    ELSE IF x.type = "Null" THEN TRUE
    ELSE IF x.type = "Boolean" THEN x.b = y.b
    ELSE IF x.type = "String" THEN x.s = y.s
    ELSE IF x.type = "Number" THEN F64Eq(x.n, y.n)
    ELSE IF x.type = "Array"
         THEN /\ Len(x.items) = Len(y.items)
              /\ \A j \in 1..Len(x.items) : JsonEq(x.items[j], y.items[j])
    ELSE /\ Len(x.props) = Len(y.props)
         /\ \A j \in 1..Len(x.props) :
                /\ x.props[j].key = y.props[j].key
                /\ JsonEq(x.props[j].value, y.props[j].value)

(***************************************************************************)
(* The state machine: a text is parsed, the tree is printed, the printed   *)
(* text is parsed again; a text is also parsed with whitespace inserted.   *)
(*   input     the text given to parse                                     *)
(*   src       how the text was written (its tokens, members or pieces)    *)
(*   parsed    what parse(input) returned                                  *)
(*   tree      the Json value at hand                                      *)
(*   indent    the indent given to json_to_string                          *)
(*   output    what json_to_string(tree, indent) returned                  *)
(*   reparsed  what parse(output) returned                                 *)
(*   spaced    input with a run of whitespace inserted                     *)
(*   respaced  what parse(spaced) returned                                 *)
(*   stdout    the text the process has written to standard output         *)
(*   stderr    the lines the process has written to standard error         *)
(*   status    the exit status of the process, Running before it exits     *)
(*   call      the last call of Json::get or Json::set on tree             *)
(***************************************************************************)
VARIABLES input, src, pc, parsed, tree, indent, output, reparsed, spaced, respaced,
          stdout, stderr, status, call

vars == <<input, src, pc, parsed, tree, indent, output, reparsed, spaced, respaced,
          stdout, stderr, status, call>>

\* what main (main.rs) writes and returns
process == <<stdout, stderr, status>>

NoResult == [kind |-> "none", val |-> NoVal, msg |-> "", args |-> <<>>, pos |-> 0]

Running == "running"

NoCall == [op |-> "none", self |-> NoVal, property |-> <<>>, value |-> NoVal,
           result |-> NoVal]

\* nothing written, not exited, no call on the tree yet
Idle ==
    /\ stdout = <<>>
    /\ stderr = <<>>
    /\ status = Running
    /\ call = NoCall

\* the bounds of the model
MaxNumLen == 5
MaxToks == 4
MaxWsToks == 3
MaxMembers == 3
MaxPieces == 3
MaxEscPieces == 2
MaxPrintLen == 2
MaxIndent == 2
MaxWsRun == 2

SeqsUpTo(S, n) == UNION {[1..k -> S] : k \in 0..n}

RECURSIVE Flatten(_)
Flatten(ss) == IF ss = <<>> THEN <<>> ELSE Head(ss) \o Flatten(Tail(ss))

\* the state before parse is called on text, written as how
Start(text, how) ==
    /\ input = text
    /\ src = how
    /\ pc = "start"
    /\ parsed = NoResult
    /\ tree = NoVal
    /\ indent = 0
    /\ output = <<>>
    /\ reparsed = NoResult
    /\ spaced = <<>>
    /\ respaced = NoResult
    /\ Idle

\* main.rs and the tests call parse on a text
DoParse ==
    /\ pc = "start"
    /\ parsed' = parse(input)
    /\ tree' = parsed'.val
    /\ pc' = IF parsed'.kind = "ok" THEN "parsed" ELSE "failed"
    /\ UNCHANGED <<input, src, indent, output, reparsed, spaced, respaced, process, call>>

\* json_to_string(&tree, indent)
DoPrint ==
    /\ pc \in {"parsed", "built"}
    /\ \E w \in 0..MaxIndent :
          /\ indent' = w
          /\ output' = json_to_string(tree, w)
    /\ pc' = "printed"
    /\ UNCHANGED <<input, src, parsed, tree, reparsed, spaced, respaced, process, call>>

\* parse on the text the printer wrote
DoReparse ==
    /\ pc = "printed"
    /\ reparsed' = parse(output)
    /\ pc' = "done"
    /\ UNCHANGED <<input, src, parsed, tree, indent, output, spaced, respaced, process, call>>

Next == DoParse \/ DoPrint \/ DoReparse

(***************************************************************************)
(* Number texts: every text over the symbols of numbers, up to MaxNumLen,  *)
(* and the number texts of the parser's tests.                             *)
(***************************************************************************)
NumAlphabet == {Ch.minus, Ch.plus, Ch.dot, Ch.e, Ch.E, Ch.zero, Ch.one, Ch.nine}

D(k) == Ch.zero + k

\* tests::it_rejects_invalid_numbers, over the symbols of numbers
RejectedNumbers ==
    { <<Ch.dot, D(3), D(4)>>,
      <<D(1), D(4), D(5), Ch.dot, D(6), D(5), Ch.dot, D(2)>>,
      <<Ch.plus, D(2), D(3)>>,
      <<Ch.minus, Ch.minus, D(2), D(3)>>,
      <<D(0), D(0)>>,
      <<D(6), D(7), Ch.dot>> }

\* the numbers of tests::it_parses_*
AcceptedNumbers ==
    { <<D(1), D(2), D(3)>>,
      <<D(1), D(2), D(0), Ch.dot, D(0), D(5), D(6)>>,
      <<D(0)>>,
      <<Ch.minus, D(1), D(2), D(3)>>,
      <<D(1), D(0), Ch.e, D(2), D(3)>>,
      <<D(1), D(0), Ch.E, D(2), D(3)>>,
      <<D(1), D(0), Ch.e, Ch.plus, D(2), D(3)>>,
      <<D(1), D(0), Ch.e, Ch.minus, D(2), D(3)>> }

NumInputs == SeqsUpTo(NumAlphabet, MaxNumLen) \cup RejectedNumbers \cup AcceptedNumbers

InitNum == \E text \in NumInputs : Start(text, <<>>)

SpecNum == InitNum /\ [][Next]_vars

(***************************************************************************)
(* The number grammar of RFC 8259: an optional minus, then the three       *)
(* groups of the regular expression (integer, fraction, exponent), found   *)
(* by splitting the text.                                                  *)
(***************************************************************************)
AllDigits(x) == \A j \in 1..Len(x) : IsDigit(x[j])

\* 0|[1-9][0-9]*
MatchesInt(x) ==
    \/ x = <<Ch.zero>>
    \/ (x # <<>> /\ IsNonZeroDigit(x[1]) /\ AllDigits(x))

\* (\.[0-9]+)?
MatchesFrac(x) ==
    \/ x = <<>>
    \/ (Len(x) >= 2 /\ x[1] = Ch.dot /\ AllDigits(Tail(x)))

\* ([eE][+-]?[0-9]+)?
MatchesExp(x) ==
    \/ x = <<>>
    \/ /\ Len(x) >= 2
       /\ x[1] \in {Ch.e, Ch.E}
       /\ LET y == IF x[2] \in {Ch.plus, Ch.minus} THEN Tail(Tail(x)) ELSE Tail(x)
          IN  y # <<>> /\ AllDigits(y)

MatchesNumberRegex(text) ==
    LET x == IF text # <<>> /\ text[1] = Ch.minus THEN Tail(text) ELSE text
    IN  \E j \in 1..Len(x) : \E k \in j..Len(x) :
            /\ MatchesInt(SubSeq(x, 1, j))
            /\ MatchesFrac(SubSeq(x, j + 1, k))
            /\ MatchesExp(SubSeq(x, k + 1, Len(x)))

NumberSymbols == {Ch.minus, Ch.plus, Ch.dot, Ch.e, Ch.E} \cup (Ch.zero..Ch.nine)

OverNumberSymbols(text) == \A j \in 1..Len(text) : text[j] \in NumberSymbols

Parsed == pc \in {"parsed", "failed", "printed", "done", "respaced"}

(***************************************************************************)
(* C1.  For every input text parse returns a Value or a JsonParseError:    *)
(* a rule that meets an invalid symbol or the end of input stops the parse *)
(* and the caller receives an error value, never a partial tree and never  *)
(* an abnormal abort.                                                      *)
(***************************************************************************)
C1_ParseReturnsValueOrError ==
    Parsed =>
        /\ parsed.kind \in {"ok", "err"}
        /\ (parsed.kind = "err" => parsed.val = NoVal)

(***************************************************************************)
(* C3.  A text over the symbols of numbers parses to a Number exactly when *)
(* the whole text matches the number grammar; the malformed numbers of the *)
(* tests ("00", "67.", "+23", ".34", "--23", "145.65.2") return an error.  *)
(***************************************************************************)
C3_NumberGrammar ==
    (Parsed /\ OverNumberSymbols(input)) =>
        /\ (parsed.kind = "ok" /\ parsed.val.type = "Number") <=> MatchesNumberRegex(input)
        /\ (parsed.kind = "ok" => parsed.val.type = "Number")
        /\ (input \in RejectedNumbers => parsed.kind = "err")

\* a signed number with an exponent is accepted
C3_Witness ==
    /\ pc = "parsed"
    /\ parsed.val.type = "Number"
    /\ Len(input) = 5
    /\ input[1] = Ch.minus
    /\ input[3] = Ch.E
    /\ input[4] = Ch.minus

(***************************************************************************)
(* C4.  Round trip: for every valid JSON text t (here: every text of the   *)
(* number grammar, which is valid JSON), parse(t) succeeds, and parsing    *)
(* the rendering of the tree succeeds and gives a tree equal to parse(t).  *)
(***************************************************************************)
C4_RoundTrip ==
    MatchesNumberRegex(input) =>
        /\ (Parsed => parsed.kind = "ok")
        /\ (pc = "done" => reparsed.kind = "ok" /\ JsonEq(reparsed.val, parsed.val))

(***************************************************************************)
(* Token texts: every sequence of up to MaxToks tokens, written without    *)
(* anything between the tokens.                                            *)
(***************************************************************************)
StringA == <<Ch.quote, Ch.a, Ch.quote>>

ScalarToks == { <<Ch.one>>, NullLit, StringA }
OpenToks == { <<Ch.lbracket>>, <<Ch.lbrace>> }
CloseToks == { <<Ch.rbracket>>, <<Ch.rbrace>> }
WsToks == { <<Ch.space>>, <<Ch.lf>> }

TokAlphabet ==
    ScalarToks \cup OpenToks \cup CloseToks \cup WsToks
        \cup { <<Ch.comma>>, <<Ch.colon>>, <<Ch.minus>> }

InitTok == \E toks \in SeqsUpTo(TokAlphabet, MaxToks) : Start(Flatten(toks), toks)

Spec == InitTok /\ [][Next]_vars

\* toks without the whitespace tokens at its two ends
RECURSIVE TrimLeft(_)
TrimLeft(toks) ==
    IF toks # <<>> /\ Head(toks) \in WsToks THEN TrimLeft(Tail(toks)) ELSE toks

RECURSIVE TrimRight(_)
TrimRight(toks) ==
    IF toks # <<>> /\ toks[Len(toks)] \in WsToks
    THEN TrimRight(SubSeq(toks, 1, Len(toks) - 1))
    ELSE toks

\* the nesting depth behind the first k tokens
RECURSIVE Depth(_, _)
Depth(toks, k) ==
    IF k = 0 THEN 0
    ELSE Depth(toks, k - 1)
         + (IF toks[k] \in OpenToks THEN 1 ELSE IF toks[k] \in CloseToks THEN -1 ELSE 0)

\* Necessary for a token sequence to be one value and nothing else: a
\* single scalar (digits and a minus written next to each other are one
\* number), or a bracket that is closed by the last token and not before.
SpansOneValue(toks) ==
    \/ (Len(toks) = 1 /\ toks[1] \in ScalarToks)
    \/ (toks # <<>> /\ \A k \in 1..Len(toks) : toks[k] \in {<<Ch.one>>, <<Ch.minus>>})
    \/ /\ Len(toks) >= 2
       /\ toks[1] \in OpenToks
       /\ Depth(toks, Len(toks)) = 0
       /\ \A k \in 1..(Len(toks) - 1) : Depth(toks, k) > 0

(***************************************************************************)
(* C2.  parse succeeds only when the whole input is one value between      *)
(* optional whitespace: when a symbol that is not whitespace remains       *)
(* behind the first complete value, parse returns an error.                *)
(***************************************************************************)
C2_WholeInputIsOneValue ==
    Parsed =>
        LET first == parse_value(input, 1)
        IN  /\ (parsed.kind = "ok" => SpansOneValue(TrimRight(TrimLeft(src))))
            /\ (parsed.kind = "ok" => first.kind = "ok" /\ first.pos = Len(input) + 1)
            /\ (first.kind = "ok" /\ first.pos <= Len(input) =>
                    /\ input[first.pos] \notin Whitespace
                    /\ parsed.kind = "err")

\* a complete array, whitespace, and one more value behind it
C2_Witness ==
    /\ pc = "failed"
    /\ src = << <<Ch.lbracket>>, <<Ch.rbracket>>, <<Ch.space>>, <<Ch.one>> >>
    /\ parsed.msg = "Unexpected character: {unexpected_char}, {} chars remaining"

(***************************************************************************)
(* Whitespace inserted at a token boundary: before the first token, behind *)
(* the last, or between two tokens that are not both written with letters, *)
(* digits or a minus (two such tokens next to each other read as one).     *)
(***************************************************************************)
WordToks == { <<Ch.one>>, NullLit, <<Ch.minus>> }

Boundaries(toks) ==
    {k \in 0..Len(toks) :
        k = 0 \/ k = Len(toks) \/ ~(toks[k] \in WordToks /\ toks[k + 1] \in WordToks)}

WsRuns == SeqsUpTo(Whitespace, MaxWsRun) \ {<<>>}

\* parse on the text with a run of whitespace inserted at a boundary
InsertWs ==
    /\ pc \in {"parsed", "failed"}
    /\ \E k \in Boundaries(src) : \E run \in WsRuns :
          /\ spaced' = Flatten(SubSeq(src, 1, k)) \o run
                           \o Flatten(SubSeq(src, k + 1, Len(src)))
          /\ respaced' = parse(spaced')
    /\ pc' = "respaced"
    /\ UNCHANGED <<input, src, parsed, tree, indent, output, reparsed, process, call>>

NextWs == DoParse \/ InsertWs

InitWs == \E toks \in SeqsUpTo(TokAlphabet, MaxWsToks) : Start(Flatten(toks), toks)

SpecWs == InitWs /\ [][NextWs]_vars

(***************************************************************************)
(* C7.  Whitespace insensitivity: a run of space, tab, LF or CR inserted   *)
(* before or behind a structural token or a value, or at the start or end  *)
(* of the input, never changes the result of parse: the same tree on       *)
(* success, still an error on failure.                                     *)
(***************************************************************************)
C7_WhitespaceInsensitive ==
    pc = "respaced" =>
        /\ respaced.kind = parsed.kind
        /\ (parsed.kind = "ok" => JsonEq(respaced.val, parsed.val))

(***************************************************************************)
(* Object texts: every list of up to MaxMembers members "key":value, the   *)
(* keys and the values drawn from small sets, written as one object.       *)
(***************************************************************************)
Quoted(key) == <<Ch.quote>> \o key \o <<Ch.quote>>

KeyA == <<Ch.a>>
KeyAB == <<Ch.a, Ch.b>>
KeyB == <<Ch.b>>
KeyD == <<Ch.d>>
KeyE == <<Ch.e>>

MemberKeys == {KeyA, KeyAB, KeyB}

\* {"e":1,"d":2}
InnerText ==
    <<Ch.lbrace>> \o Quoted(KeyE) \o <<Ch.colon, D(1), Ch.comma>>
        \o Quoted(KeyD) \o <<Ch.colon, D(2), Ch.rbrace>>

MemberValues == { <<D(1)>>, <<D(2)>>, InnerText }

Members == [key : MemberKeys, val : MemberValues]

RECURSIVE MemberList(_)
MemberList(members) ==
    IF members = <<>> THEN <<>>
    ELSE Quoted(Head(members).key) \o <<Ch.colon>> \o Head(members).val
         \o (IF Len(members) > 1 THEN <<Ch.comma>> ELSE <<>>)
         \o MemberList(Tail(members))

ObjectText(members) == <<Ch.lbrace>> \o MemberList(members) \o <<Ch.rbrace>>

InitObj == \E members \in SeqsUpTo(Members, MaxMembers) : Start(ObjectText(members), members)

SpecObj == InitObj /\ [][Next]_vars

\* the index at which pat first occurs in text, 0 when it does not occur
IndexOf(text, pat) ==
    LET at == {j \in 1..(Len(text) - Len(pat) + 1) : SubSeq(text, j, j + Len(pat) - 1) = pat}
    IN  IF at = {} THEN 0 ELSE CHOOSE j \in at : \A h \in at : j <= h

Printed == pc \in {"printed", "done"}

(***************************************************************************)
(* C5.  For every object, at every nesting level, the printer emits the    *)
(* properties in ascending key order, whatever the order of the keys in    *)
(* the parsed text: every key of the outer object is printed, of two keys  *)
(* printed for one nesting level the smaller is printed first, and         *)
(* {"b":1,"a":2} is printed with "a" before "b".                           *)
(***************************************************************************)
C5_KeysPrintedAscending ==
    Printed =>
        /\ \A j \in 1..Len(src) : IndexOf(output, Quoted(src[j].key)) > 0
        /\ \A level \in {MemberKeys, {KeyD, KeyE}} : \A k1, k2 \in level :
              (/\ StrLess(k1, k2)
               /\ IndexOf(output, Quoted(k1)) > 0
               /\ IndexOf(output, Quoted(k2)) > 0)
              => IndexOf(output, Quoted(k1)) < IndexOf(output, Quoted(k2))

\* {"b":1,"a":2} has been printed, and "b" stands before "a" in the text
C5_Witness ==
    /\ Printed
    /\ src = << [key |-> KeyB, val |-> <<D(1)>>], [key |-> KeyA, val |-> <<D(2)>>] >>
    /\ IndexOf(input, Quoted(KeyB)) < IndexOf(input, Quoted(KeyA))

\* Json::get (ast.rs), on the entries of an object
RECURSIVE MapGet(_, _)
MapGet(props, key) ==
    IF props = <<>> THEN NoVal
    ELSE IF Head(props).key = key THEN Head(props).value
    ELSE MapGet(Tail(props), key)

\* the tree a member value stands for
One == JNumber(F64Fin(FALSE, <<1>>, 0))
Two == JNumber(F64Fin(FALSE, <<2>>, 0))

ValueOf(text) ==
    IF text = <<D(1)>> THEN One
    ELSE IF text = <<D(2)>> THEN Two
    ELSE JObject(<< [key |-> KeyD, value |-> Two], [key |-> KeyE, value |-> One] >>)

\* the index of the last member of members with this key, 0 without one
LastWith(members, key) ==
    LET at == {j \in 1..Len(members) : members[j].key = key}
    IN  IF at = {} THEN 0 ELSE CHOOSE j \in at : \A h \in at : h <= j

(***************************************************************************)
(* C6.  When an object text holds the same key more than once, parse       *)
(* succeeds and the Object holds the key exactly once, with the value of   *)
(* its last occurrence in the text; the other keys keep their own values.  *)
(***************************************************************************)
C6_LastDuplicateWins ==
    Parsed =>
        /\ parsed.kind = "ok"
        /\ parsed.val.type = "Object"
        /\ LET props == parsed.val.props
           IN  /\ \A key \in MemberKeys :
                     Cardinality({j \in 1..Len(props) : props[j].key = key})
                        = (IF LastWith(src, key) = 0 THEN 0 ELSE 1)
               /\ \A j \in 1..Len(props) : props[j].key \in MemberKeys
               /\ \A key \in MemberKeys :
                     LastWith(src, key) # 0 =>
                        JsonEq(MapGet(props, key), ValueOf(src[LastWith(src, key)].val))

\* "a" is written twice with different values, and "b" between them
C6_Witness ==
    /\ pc = "parsed"
    /\ Len(src) = 3
    /\ src[1].key = KeyA /\ src[2].key = KeyB /\ src[3].key = KeyA
    /\ src[1].val = <<D(1)>> /\ src[3].val = <<D(2)>>

(***************************************************************************)
(* String texts with \u escapes: every list of up to MaxPieces pieces,     *)
(* written between two quotes.                                             *)
(***************************************************************************)
U(h1, h2, h3, h4) == <<Ch.backslash, Ch.u, h1, h2, h3, h4>>

PieceText ==
    [ high     |-> U(68, D(8), D(3), 68),            \* \uD83D
      low      |-> U(68, 69, D(0), D(2)),            \* \uDE02
      bmp      |-> U(D(0), D(0), D(4), D(1)),        \* A
      bmpLower |-> U(D(0), D(0), Ch.e, D(9)),        \* é
      raw      |-> <<Ch.a>>,
      short    |-> <<Ch.backslash, Ch.n>> ]

\* the character each piece stands for; pair: a high and a low piece
PieceChar ==
    [ pair |-> 128514, bmp |-> 65, bmpLower |-> 233, raw |-> 97, short |-> 10 ]

Pieces == DOMAIN PieceText

PiecesText(pieces) == Flatten([j \in 1..Len(pieces) |-> PieceText[pieces[j]]])

InitStr ==
    \E pieces \in SeqsUpTo(Pieces, MaxPieces) :
        Start(<<Ch.quote>> \o PiecesText(pieces) \o <<Ch.quote>>, pieces)

SpecStr == InitStr /\ [][Next]_vars

\* The string a list of pieces stands for, as C8 states it: a high
\* surrogate escape and the low surrogate escape right behind it are one
\* character, every other surrogate escape is an error, every other piece
\* is its own character.
RECURSIVE Reference(_)
Reference(pieces) ==
    IF pieces = <<>> THEN [ok |-> TRUE, chars |-> <<>>]
    ELSE IF pieces[1] = "high"
         THEN IF Len(pieces) >= 2 /\ pieces[2] = "low"
              THEN LET rest == Reference(Tail(Tail(pieces)))
                   IN  [ok |-> rest.ok, chars |-> <<PieceChar.pair>> \o rest.chars]
              ELSE [ok |-> FALSE, chars |-> <<>>]
    ELSE IF pieces[1] = "low" THEN [ok |-> FALSE, chars |-> <<>>]
    ELSE LET rest == Reference(Tail(pieces))
         IN  [ok |-> rest.ok, chars |-> <<PieceChar[pieces[1]]>> \o rest.chars]

(***************************************************************************)
(* C8.  In a string, a \u escape of a high surrogate followed at once by a *)
(* \u escape of a low surrogate decodes to the one scalar value of the     *)
(* pair; a high surrogate not followed at once by a low surrogate escape,  *)
(* and a low surrogate not preceded by a high one, make parse return an    *)
(* error; every other \u escape decodes to its own character.              *)
(***************************************************************************)
C8_SurrogatePairs ==
    Parsed =>
        IF Reference(src).ok
        THEN parsed.kind = "ok" /\ parsed.val = JString(Reference(src).chars)
        ELSE parsed.kind = "err"

\* A \uD83D \uDE02 has been parsed to the two characters A and U+1F602
C8_Witness ==
    /\ pc = "parsed"
    /\ src = <<"bmp", "high", "low">>
    /\ parsed.val.s = <<65, 128514>>

(***************************************************************************)
(* String texts with short escapes: every list of up to MaxEscPieces       *)
(* pieces behind a quote, with or without the closing quote.  No piece     *)
(* starts with a hex digit, so a \u escape cut short stays short.          *)
(***************************************************************************)
EscText ==
    [ q      |-> <<Ch.backslash, Ch.quote>>,
      bslash |-> <<Ch.backslash, Ch.backslash>>,
      slash  |-> <<Ch.backslash, Ch.slash>>,
      b      |-> <<Ch.backslash, Ch.b>>,
      f      |-> <<Ch.backslash, Ch.f>>,
      n      |-> <<Ch.backslash, Ch.n>>,
      r      |-> <<Ch.backslash, Ch.r>>,
      t      |-> <<Ch.backslash, Ch.t>>,
      x      |-> <<Ch.x>>,
      d      |-> <<Ch.backslash, Ch.d>>,
      zero   |-> <<Ch.backslash, Ch.zero>>,
      space  |-> <<Ch.backslash, Ch.space>>,
      u      |-> <<Ch.backslash, Ch.u>>,
      u00    |-> <<Ch.backslash, Ch.u, D(0), D(0)>>,
      u001   |-> <<Ch.backslash, Ch.u, D(0), D(0), D(1)>> ]

\* the characters C9 names for the eight escapes, and x for itself
EscChar ==
    [ q |-> 34, bslash |-> 92, slash |-> 47, b |-> 8, f |-> 12, n |-> 10,
      r |-> 13, t |-> 9, x |-> 120 ]

EscPieces == DOMAIN EscText

EscPiecesText(pieces) == Flatten([j \in 1..Len(pieces) |-> EscText[pieces[j]]])

InitEsc ==
    \E pieces \in SeqsUpTo(EscPieces, MaxEscPieces) : \E closed \in BOOLEAN :
        Start(<<Ch.quote>> \o EscPiecesText(pieces)
                  \o (IF closed THEN <<Ch.quote>> ELSE <<>>),
              [pieces |-> pieces, closed |-> closed])

SpecEsc == InitEsc /\ [][Next]_vars

(***************************************************************************)
(* C9.  In a string, a backslash followed by one of " \ / b f n r t        *)
(* decodes to 0x22, 0x5C, 0x2F, 0x08, 0x0C, 0x0A, 0x0D, 0x09; a backslash  *)
(* followed by any other character except u, a \u followed by fewer than 4 *)
(* hex digits, and the end of input before the closing quote each make     *)
(* parse return an error.                                                  *)
(***************************************************************************)
C9_ShortEscapes ==
    Parsed =>
        IF src.closed /\ \A j \in 1..Len(src.pieces) : src.pieces[j] \in DOMAIN EscChar
        THEN /\ parsed.kind = "ok"
             /\ parsed.val = JString([j \in 1..Len(src.pieces) |-> EscChar[src.pieces[j]]])
        ELSE parsed.kind = "err"

\* "\b\/" has been parsed to the characters 0x08 and 0x2F
C9_Witness ==
    /\ pc = "parsed"
    /\ src = [pieces |-> <<"b", "slash">>, closed |-> TRUE]
    /\ parsed.val.s = <<8, 47>>

(***************************************************************************)
(* Strings given to the printer: every string of up to MaxPrintLen         *)
(* characters drawn from the controls, the characters with an escape of    *)
(* their own, '/', a letter, DEL and two characters beyond ASCII.          *)
(***************************************************************************)
PrintChars == {0, 8, 9, 10, 12, 13, 27, 31, 34, 47, 92, 97, 127, 233, 128514}

InitPrint ==
    \E string \in SeqsUpTo(PrintChars, MaxPrintLen) :
        /\ input = <<>>
        /\ src = <<>>
        /\ pc = "built"
        /\ parsed = NoResult
        /\ tree = JString(string)
        /\ indent = 0
        /\ output = <<>>
        /\ reparsed = NoResult
        /\ spaced = <<>>
        /\ respaced = NoResult
        /\ Idle

NextPrint == DoPrint \/ DoReparse

SpecPrint == InitPrint /\ [][NextPrint]_vars

UpperHex ==
    << D(0), D(1), D(2), D(3), D(4), D(5), D(6), D(7), D(8), D(9),
       65, 66, 67, 68, 69, 70 >>

\* what C10 says is written for one character
Written(c) ==
    CASE c = 92 -> <<92, 92>>
      [] c = 34 -> <<92, 34>>
      [] c = 10 -> <<92, Ch.n>>
      [] c = 13 -> <<92, Ch.r>>
      [] c = 9  -> <<92, Ch.t>>
      [] c = 12 -> <<92, Ch.f>>
      [] c = 8  -> <<92, Ch.b>>
      [] c \in (0..31) \ {8, 9, 10, 12, 13} ->
            <<92, Ch.u, D(0), D(0), UpperHex[(c \div 16) + 1], UpperHex[(c % 16) + 1]>>
      [] OTHER -> <<c>>

(***************************************************************************)
(* C10.  The printer writes every string between double quotes, with       *)
(* backslash, double quote, LF, CR, tab, form feed and backspace written   *)
(* as \\ \" \n \r \t \f \b, every other character of 0x00..0x1F written as *)
(* \u00XX with uppercase hex digits, and every other character (also '/'   *)
(* and the characters beyond ASCII) written unchanged.                     *)
(***************************************************************************)
C10_StringEscaping ==
    (Printed /\ tree.type = "String") =>
        output = <<Ch.quote>>
                    \o Flatten([j \in 1..Len(tree.s) |-> Written(tree.s[j])])
                    \o <<Ch.quote>>

\* the string of U+001B and '/' has been printed as "\u001B/"
C10_Witness ==
    /\ pc = "printed"
    /\ tree = JString(<<27, 47>>)
    /\ output = <<Ch.quote, 92, Ch.u, D(0), D(0), D(1), 66, 47, Ch.quote>>

(***************************************************************************)
(* Trees given to the printer: scalars, arrays of up to MaxItems scalars,  *)
(* objects over the keys "a" and "b", arrays and objects of one or two of  *)
(* these, and arrays and objects nested one level deeper; numbers and      *)
(* strings of many kinds as scalars, as items, as property values and as   *)
(* keys.  An Object holds its entries in key order, as a BTreeMap does.    *)
(***************************************************************************)
MaxItems == 2

SimpleLeaves == {JNull, JBoolean(TRUE), One}

Arrays(vals, n) == {JArray(items) : items \in SeqsUpTo(vals, n)}

Entry(key, value) == [key |-> key, value |-> value]

Objects(vals) ==
    {JObject(<<>>)}
        \cup {JObject(<<Entry(key, v)>>) : key \in {KeyA, KeyB}, v \in vals}
        \cup {JObject(<<Entry(KeyA, v1), Entry(KeyB, v2)>>) : v1 \in vals, v2 \in vals}

SimpleContainers == Arrays(SimpleLeaves, MaxItems) \cup Objects(SimpleLeaves)

SimpleValues == SimpleLeaves \cup SimpleContainers

\* the arrays of one or two of vals
Pairs(vals) ==
    {JArray(<<x>>) : x \in vals} \cup {JArray(<<x, y>>) : x \in vals, y \in vals}

NestedTrees == Pairs(SimpleValues) \cup Objects(SimpleValues)

DeepTrees ==
    {JArray(<<JNull, JArray(<<x>>)>>) : x \in SimpleContainers}
        \cup {JObject(<<Entry(KeyA, JArray(<<x, One>>))>>) : x \in SimpleContainers}
        \cup {JArray(<<JObject(<<Entry(KeyB, x)>>)>>) : x \in SimpleContainers}

\* finite numbers: 1, 2, 0, -0, -1.5, 1e21, 1e-7, 120
FiniteNumbers ==
    { One, Two, JNumber(F64Zero(FALSE)), JNumber(F64Zero(TRUE)),
      JNumber(F64Fin(TRUE, <<1, 5>>, -1)), JNumber(F64Fin(FALSE, <<1>>, 21)),
      JNumber(F64Fin(FALSE, <<1>>, -7)), JNumber(F64Fin(FALSE, <<1, 2>>, 1)) }

\* the empty string, every string of one character of PrintChars, and runs
\* of characters the printer escapes
TreeStrings ==
    {<<>>} \cup {<<c>> : c \in PrintChars}
        \cup { <<0, 31>>, <<9, 27>>, <<10, 13>>, <<Ch.quote, Ch.backslash>>,
               <<Ch.backslash, Ch.backslash>>, <<Ch.backslash, Ch.n>>,
               <<Ch.backslash, Ch.u>>, <<Ch.a, Ch.quote, Ch.a>> }

RichLeaves ==
    {JNull, JBoolean(TRUE), JBoolean(FALSE)} \cup FiniteNumbers
        \cup {JString(string) : string \in TreeStrings}

RichTrees ==
    RichLeaves \cup Pairs(RichLeaves) \cup Objects(RichLeaves)
        \cup {JObject(<<Entry(key, JNull)>>) : key \in TreeStrings}

Trees == SimpleValues \cup NestedTrees \cup DeepTrees \cup RichTrees

\* the state before json_to_string is called on value
Built(value) ==
    /\ input = <<>>
    /\ src = <<>>
    /\ pc = "built"
    /\ parsed = NoResult
    /\ tree = value
    /\ indent = 0
    /\ output = <<>>
    /\ reparsed = NoResult
    /\ spaced = <<>>
    /\ respaced = NoResult
    /\ Idle

InitTree == \E value \in Trees : Built(value)

SpecTree == InitTree /\ [][NextPrint]_vars

(***************************************************************************)
(* The printed text read line by line.  The strings of Trees hold no       *)
(* space, bracket, brace, comma or colon, and the printer escapes the line *)
(* feed, so outside the quotes these symbols are the printer's own.        *)
(***************************************************************************)
\* the index of the first line feed of text, Len(text) + 1 without one
RECURSIVE LineEnd(_, _)
LineEnd(text, j) ==
    IF j > Len(text) \/ text[j] = Ch.lf THEN j ELSE LineEnd(text, j + 1)

RECURSIVE SplitLines(_)
SplitLines(text) ==
    LET e == LineEnd(text, 1)
    IN  IF e > Len(text) THEN <<text>>
        ELSE <<SubSeq(text, 1, e - 1)>> \o SplitLines(SubSeq(text, e + 1, Len(text)))

RECURSIVE LeadingSpaces(_)
LeadingSpaces(line) ==
    IF line # <<>> /\ Head(line) = Ch.space THEN 1 + LeadingSpaces(Tail(line)) ELSE 0

LineBody(line) == SubSeq(line, LeadingSpaces(line) + 1, Len(line))

\* the line closes an array or object: a closing bracket, then at most a comma
IsCloser(line) ==
    LineBody(line) \in { <<Ch.rbracket>>, <<Ch.rbrace>>,
                         <<Ch.rbracket, Ch.comma>>, <<Ch.rbrace, Ch.comma>> }

\* the line opens a non-empty array or object
IsOpener(line) == line # <<>> /\ line[Len(line)] \in {Ch.lbracket, Ch.lbrace}

EndsWithComma(line) == line # <<>> /\ line[Len(line)] = Ch.comma

\* the number of arrays and objects open before the k-th line
RECURSIVE OpenBefore(_, _)
OpenBefore(lines, k) ==
    IF k = 1 THEN 0
    ELSE OpenBefore(lines, k - 1)
         + (IF IsOpener(lines[k - 1]) THEN 1 ELSE 0)
         - (IF IsCloser(lines[k - 1]) THEN 1 ELSE 0)

Count(text, c) == Cardinality({j \in 1..Len(text) : text[j] = c})

CountPair(text, c1, c2) ==
    Cardinality({j \in 1..(Len(text) - 1) : text[j] = c1 /\ text[j + 1] = c2})

RECURSIVE Sum(_)
Sum(ns) == IF ns = <<>> THEN 0 ELSE Head(ns) + Sum(Tail(ns))

\* the values held by a tree node
Children(v) ==
    IF v.type = "Array" THEN v.items
    ELSE IF v.type = "Object" THEN [j \in 1..Len(v.props) |-> v.props[j].value]
    ELSE <<>>

\* one line per scalar or empty container; for a non-empty container its
\* opening line, the lines of its members and its closing line, where the
\* opening line of a member is the member's own line
RECURSIVE LineCount(_)
LineCount(v) ==
    IF Children(v) = <<>> THEN 1
    ELSE 2 + Sum([j \in 1..Len(Children(v)) |-> LineCount(Children(v)[j])])

\* the commas between the members: one fewer than members, at every level
RECURSIVE CommaCount(_)
CommaCount(v) ==
    IF Children(v) = <<>> THEN 0
    ELSE (Len(Children(v)) - 1)
         + Sum([j \in 1..Len(Children(v)) |-> CommaCount(Children(v)[j])])

RECURSIVE PropertyCount(_)
PropertyCount(v) ==
    (IF v.type = "Object" THEN Len(v.props) ELSE 0)
        + Sum([j \in 1..Len(Children(v)) |-> PropertyCount(Children(v)[j])])

\* the empty containers of one type in a tree
RECURSIVE EmptyCount(_, _)
EmptyCount(v, type) ==
    (IF v.type = type /\ Children(v) = <<>> THEN 1 ELSE 0)
        + Sum([j \in 1..Len(Children(v)) |-> EmptyCount(Children(v)[j], type)])

(***************************************************************************)
(* C11.  Pretty printing with indent width w: every member of a non-empty  *)
(* array or object at nesting level L is on a line of its own that starts  *)
(* with exactly (L+1)*w spaces, the closing bracket is on its own line     *)
(* behind exactly L*w spaces, a comma stands behind every member except    *)
(* the last and never behind the last, ": " stands between key and value,  *)
(* and an empty array or object is "[]" or "{}" on one line at every       *)
(* level.                                                                  *)
(***************************************************************************)
C11_PrettyLayout ==
    Printed =>
        LET lines == SplitLines(output)
        IN  /\ Len(lines) = LineCount(tree)
            /\ \A k \in 1..Len(lines) :
                  /\ LeadingSpaces(lines[k])
                        = indent * (OpenBefore(lines, k) - (IF IsCloser(lines[k]) THEN 1 ELSE 0))
                  /\ Count(lines[k], Ch.comma) = (IF EndsWithComma(lines[k]) THEN 1 ELSE 0)
                  /\ Count(lines[k], Ch.colon) <= 1
                  /\ Count(lines[k], Ch.space)
                        = LeadingSpaces(lines[k]) + Count(lines[k], Ch.colon)
                  /\ EndsWithComma(lines[k])
                        <=> (/\ k < Len(lines)
                             /\ ~IsOpener(lines[k])
                             /\ ~IsCloser(lines[k + 1]))
            /\ OpenBefore(lines, Len(lines)) = (IF Children(tree) = <<>> THEN 0 ELSE 1)
            /\ Count(output, Ch.comma) = CommaCount(tree)
            /\ Count(output, Ch.colon) = PropertyCount(tree)
            /\ CountPair(output, Ch.colon, Ch.space) = PropertyCount(tree)
            /\ CountPair(output, Ch.quote, Ch.colon) = PropertyCount(tree)
            /\ CountPair(output, Ch.lbracket, Ch.rbracket) = EmptyCount(tree, "Array")
            /\ CountPair(output, Ch.lbrace, Ch.rbrace) = EmptyCount(tree, "Object")
            /\ Count(output, Ch.lbracket) = Count(output, Ch.rbracket)
            /\ Count(output, Ch.lbrace) = Count(output, Ch.rbrace)

\* [[null], {}] has been printed with indent 2 on five lines
C11_Witness ==
    /\ pc = "printed"
    /\ indent = 2
    /\ tree = JArray(<<JArray(<<JNull>>), JObject(<<>>)>>)
    /\ output = <<Ch.lbracket, Ch.lf,
                  Ch.space, Ch.space, Ch.lbracket, Ch.lf,
                  Ch.space, Ch.space, Ch.space, Ch.space>> \o NullLit \o <<Ch.lf,
                  Ch.space, Ch.space, Ch.rbracket, Ch.comma, Ch.lf,
                  Ch.space, Ch.space, Ch.lbrace, Ch.rbrace, Ch.lf,
                  Ch.rbracket>>

(***************************************************************************)
(* The compact text of a tree, as C12 describes it: the members separated  *)
(* by ',' and the keys from the values by ':', nothing else between them.  *)
(***************************************************************************)
RECURSIVE CompactText(_)
RECURSIVE CompactMembers(_, _)

CompactMembers(v, j) ==
    IF j > Len(Children(v)) THEN <<>>
    ELSE (IF v.type = "Object" THEN Quoted(v.props[j].key) \o <<Ch.colon>> ELSE <<>>)
         \o CompactText(Children(v)[j])
         \o (IF j < Len(Children(v)) THEN <<Ch.comma>> ELSE <<>>)
         \o CompactMembers(v, j + 1)

CompactText(v) ==
    IF v.type = "Array" THEN <<Ch.lbracket>> \o CompactMembers(v, 1) \o <<Ch.rbracket>>
    ELSE IF v.type = "Object" THEN <<Ch.lbrace>> \o CompactMembers(v, 1) \o <<Ch.rbrace>>
    ELSE display_json(v, 0, 0)

\* text without its spaces and line feeds
RECURSIVE Squeeze(_)
Squeeze(text) ==
    IF text = <<>> THEN <<>>
    ELSE (IF Head(text) \in {Ch.space, Ch.lf} THEN <<>> ELSE <<Head(text)>>)
         \o Squeeze(Tail(text))

\* the members "b":1 and "a":2, in this order
MembersBA == << [key |-> KeyB, val |-> <<D(1)>>], [key |-> KeyA, val |-> <<D(2)>>] >>

ErrorPrefix == "ERROR: Invalid JSON - "

\* impl fmt::Display for JsonParseError, and the line feed of eprintln!
ErrorLine(error) == [prefix |-> ErrorPrefix, message |-> error.msg, args |-> error.args]

\* what the panic handler of the runtime writes
PanicLine(panic) == [prefix |-> "thread 'main' panicked", message |-> panic.msg, args |-> <<>>]

ExitSuccess == 0     \* main returns
ExitFailure == 1     \* process::exit(1)
ExitPanic == 101     \* the exit status of a Rust program whose main panics

\* impl fmt::Display for Json, and the line feed of println!
PrintLine(json) == display_json(json, 2, 0) \o <<Ch.lf>>

\* main on the standard input text; result is parse(&input)
MainOn(result) ==
    /\ parsed' = result
    /\ tree' = result.val
    /\ stdout' = IF result.kind = "ok" THEN PrintLine(result.val) ELSE <<>>
    /\ stderr' = IF result.kind = "ok" THEN <<>>
                 ELSE IF result.kind = "err" THEN <<ErrorLine(result)>>
                 ELSE <<PanicLine(result)>>
    /\ status' = IF result.kind = "ok" THEN ExitSuccess
                 ELSE IF result.kind = "err" THEN ExitFailure
                 ELSE ExitPanic

DoMain ==
    /\ pc = "start"
    /\ MainOn(parse(input))
    /\ pc' = "exited"
    /\ UNCHANGED <<input, src, indent, output, reparsed, spaced, respaced, call>>

NextMain == DoMain

SpecMain == InitTok /\ [][NextMain]_vars

(***************************************************************************)
(* C13.  For every standard-input text the program ends in exactly one of  *)
(* two outcomes: when parse succeeds, the 2-space pretty rendering and one *)
(* line feed on standard output and exit status 0; when parse does not     *)
(* succeed, "ERROR: Invalid JSON - <message>" on standard error, nothing   *)
(* on standard output and exit status 1.                                   *)
(***************************************************************************)
C13_TwoOutcomes ==
    pc = "exited" =>
        IF parse(input).kind = "ok"
        THEN /\ stdout = json_to_string(parse(input).val, 2) \o <<Ch.lf>>
             /\ status = 0
        ELSE /\ Len(stderr) = 1
             /\ stderr[1].prefix = "ERROR: Invalid JSON - "
             /\ stderr[1].message # ""
             /\ stdout = <<>>
             /\ status = 1

(***************************************************************************)
(* Array and object texts with one defect: a list of up to MaxMembers      *)
(* members, each a well-formed value, written as an array or (with the     *)
(* keys "a", "aa", "aaa", ...) as an object, and then left as it is or     *)
(* damaged in one of the ways that C14 lists.                              *)
(***************************************************************************)
MinusOne == JNumber(F64Fin(TRUE, <<1>>, 0))

\* the member values: 1, -1, null, "a", [] and {"b":1}, each with its tree
ListValues ==
    { [text |-> <<D(1)>>, tree |-> One],
      [text |-> <<Ch.minus, D(1)>>, tree |-> MinusOne],
      [text |-> NullLit, tree |-> JNull],
      [text |-> StringA, tree |-> JString(<<Ch.a>>)],
      [text |-> <<Ch.lbracket, Ch.rbracket>>, tree |-> JArray(<<>>)],
      [text |-> <<Ch.lbrace>> \o Quoted(KeyB) \o <<Ch.colon, D(1), Ch.rbrace>>,
       tree |-> JObject(<<Entry(KeyB, One)>>)] }

KeyOf(j) == [i \in 1..j |-> Ch.a]

BareKeys == { <<Ch.a>>, <<D(1)>>, NullLit }

\* the defects a list of n members can be given
ListDefects(shape, n) ==
    { [kind |-> "none", at |-> 0, with |-> <<>>],
      [kind |-> "leadingComma", at |-> 0, with |-> <<>>],
      [kind |-> "trailingComma", at |-> 0, with |-> <<>>] }
        \cup { [kind |-> "noComma", at |-> j, with |-> sep] :
                  j \in 1..(n - 1), sep \in {<<Ch.space>>, <<Ch.lf>>} }
        \cup (IF shape = "object"
              THEN { [kind |-> "bareKey", at |-> j, with |-> key] :
                        j \in 1..n, key \in BareKeys }
                   \cup { [kind |-> form, at |-> j, with |-> <<>>] :
                        j \in 1..n, form \in {"keyOnly", "noColon", "noValue"} }
              ELSE {})

\* the j-th member as it is written
MemberText(shape, members, defect, j) ==
    LET value == members[j].text
        hit == defect.at = j
    IN  IF shape = "array" THEN value
        ELSE IF hit /\ defect.kind = "bareKey" THEN defect.with \o <<Ch.colon>> \o value
        ELSE IF hit /\ defect.kind = "keyOnly" THEN Quoted(KeyOf(j))
        ELSE IF hit /\ defect.kind = "noColon" THEN Quoted(KeyOf(j)) \o <<Ch.space>> \o value
        ELSE IF hit /\ defect.kind = "noValue" THEN Quoted(KeyOf(j)) \o <<Ch.colon>>
        ELSE Quoted(KeyOf(j)) \o <<Ch.colon>> \o value

RECURSIVE MembersText(_, _, _, _)
MembersText(shape, members, defect, j) ==
    IF j > Len(members) THEN <<>>
    ELSE MemberText(shape, members, defect, j)
         \o (IF j = Len(members) THEN <<>>
             ELSE IF defect.kind = "noComma" /\ defect.at = j THEN defect.with
             ELSE <<Ch.comma>>)
         \o MembersText(shape, members, defect, j + 1)

ListText(shape, members, defect) ==
    (IF shape = "array" THEN <<Ch.lbracket>> ELSE <<Ch.lbrace>>)
        \o (IF defect.kind = "leadingComma" THEN <<Ch.comma>> ELSE <<>>)
        \o MembersText(shape, members, defect, 1)
        \o (IF defect.kind = "trailingComma" THEN <<Ch.comma>> ELSE <<>>)
        \o (IF shape = "array" THEN <<Ch.rbracket>> ELSE <<Ch.rbrace>>)

NoDefect == [kind |-> "none", at |-> 0, with |-> <<>>]

\* the text with its defect, or the well-formed text cut behind cut symbols
\* (the bracket is then left open)
InitList ==
    \E shape \in {"array", "object"} :
    \E members \in SeqsUpTo(ListValues, MaxMembers) :
        \/ \E defect \in ListDefects(shape, Len(members)) :
              Start(ListText(shape, members, defect),
                    [shape |-> shape, members |-> members, defect |-> defect])
        \/ \E cut \in 1..(Len(ListText(shape, members, NoDefect)) - 1) :
              Start(SubSeq(ListText(shape, members, NoDefect), 1, cut),
                    [shape |-> shape, members |-> members,
                     defect |-> [kind |-> "unclosed", at |-> cut, with |-> <<>>]])

SpecList == InitList /\ [][Next]_vars

(***************************************************************************)
(* C14.  parse returns an error for every array or object text whose       *)
(* member list is malformed: an unclosed '[' or '{', a comma before the    *)
(* first member, a comma after the last member, two members with no comma  *)
(* between them, an object key that is not a quoted string, a key with no  *)
(* ':' and value after it; a well-formed array parses to its elements in   *)
(* source order.                                                           *)
(***************************************************************************)
C14_MalformedLists ==
    Parsed =>
        IF src.defect.kind = "none"
        THEN /\ parsed.kind = "ok"
             /\ (src.shape = "array" =>
                    parsed.val = JArray([j \in 1..Len(src.members) |-> src.members[j].tree]))
             /\ (src.shape = "object" =>
                    /\ parsed.val.type = "Object"
                    /\ \A j \in 1..Len(src.members) :
                          MapGet(parsed.val.props, KeyOf(j)) = src.members[j].tree)
        ELSE parsed.kind = "err"

(***************************************************************************)
(* Literal texts: the first keep symbols of null, true or false, and then  *)
(* up to MaxTail symbols of LitAlphabet; and the typos of the tests.       *)
(***************************************************************************)
MaxTail == 2

Literals == [null |-> NullLit, true |-> TrueLit, false |-> FalseLit]

LiteralValue == [null |-> JNull, true |-> JBoolean(TRUE), false |-> JBoolean(FALSE)]

\* n u l t r e f a s, and x , space and # which start no value
LitAlphabet ==
    { Ch.n, Ch.u, Ch.l, Ch.t, Ch.r, Ch.e, Ch.f, Ch.a, Ch.s, Ch.x, Ch.comma, Ch.space, 35 }

\* tests::it_rejects_typos: nul folse flase truee rue
RejectedLiterals ==
    { <<Ch.n, Ch.u, Ch.l>>,
      <<Ch.f, 111, Ch.l, Ch.s, Ch.e>>,
      <<Ch.f, Ch.l, Ch.a, Ch.s, Ch.e>>,
      <<Ch.t, Ch.r, Ch.u, Ch.e, Ch.e>>,
      <<Ch.r, Ch.u, Ch.e>> }

InitLit ==
    \/ \E lit \in DOMAIN Literals : \E keep \in 0..Len(Literals[lit]) :
       \E tail \in SeqsUpTo(LitAlphabet, MaxTail) :
          Start(SubSeq(Literals[lit], 1, keep) \o tail,
                [lit |-> lit, keep |-> keep, tail |-> tail])
    \/ \E text \in RejectedLiterals : Start(text, [lit |-> "typo", keep |-> 0, tail |-> text])

SpecLit == InitLit /\ [][Next]_vars

\* text from its first symbol that is not whitespace
RECURSIVE FromLookahead(_)
FromLookahead(text) ==
    IF text # <<>> /\ Head(text) \in Whitespace THEN FromLookahead(Tail(text)) ELSE text

\* the number of leading symbols that x and y share
RECURSIVE CommonPrefix(_, _)
CommonPrefix(x, y) ==
    IF x = <<>> \/ y = <<>> \/ Head(x) # Head(y) THEN 0
    ELSE 1 + CommonPrefix(Tail(x), Tail(y))

\* the literal a lookahead symbol selects
LiteralFor(c) == IF c = Ch.n THEN "null" ELSE IF c = Ch.t THEN "true" ELSE "false"

\* the symbols that start a number, a string, an array or an object
OtherValueStarts ==
    {Ch.minus, Ch.quote, Ch.lbracket, Ch.lbrace} \cup (Ch.zero..Ch.nine)

(***************************************************************************)
(* C15.  With the lookahead 'n', 't' or 'f', parse_value yields Null,      *)
(* Boolean(true) or Boolean(false) only if the next symbols are exactly    *)
(* null, true or false; a differing symbol at any position of the literal  *)
(* gives an error naming the expected and the found character; input       *)
(* ending inside the literal gives the unexpected-end-of-input error; any  *)
(* other lookahead that starts no value, and the end of input, give an     *)
(* error.  (parse then returns this error, or the value when nothing but   *)
(* whitespace follows it.)                                                 *)
(***************************************************************************)
C15_Literals ==
    Parsed =>
        LET rest == FromLookahead(input)
            first == parse_value(input, 1)
        IN  IF rest = <<>> THEN first.kind = "err" /\ parsed = first
            ELSE IF rest[1] \in {Ch.n, Ch.t, Ch.f}
            THEN LET lit == LiteralFor(rest[1])
                     same == CommonPrefix(rest, Literals[lit])
                 IN  IF same = Len(Literals[lit])
                     THEN /\ first.kind = "ok"
                          /\ first.val = LiteralValue[lit]
                          /\ (FromLookahead(SubSeq(rest, same + 1, Len(rest))) = <<>>
                                 => parsed.kind = "ok" /\ parsed.val = LiteralValue[lit])
                     ELSE IF same = Len(rest)
                     THEN /\ first.kind = "err"
                          /\ first.msg = "Unexpected end of input"
                          /\ parsed = first
                     ELSE /\ first.kind = "err"
                          /\ first.msg = "Expected '{expected_char}', but found '{actual_char}'"
                          /\ first.args = <<Literals[lit][same + 1], rest[same + 1]>>
                          /\ parsed = first
            ELSE IF rest[1] \in OtherValueStarts THEN TRUE
            ELSE first.kind = "err" /\ first.args = <<rest[1]>> /\ parsed = first

\* "fals" followed by 'x': the fifth symbol differs from the 'e' expected
C15_Witness ==
    /\ pc = "failed"
    /\ src = [lit |-> "false", keep |-> 4, tail |-> <<Ch.x>>]
    /\ parsed.args = <<Ch.e, Ch.x>>

(***************************************************************************)
(* Texts of every kind: the token texts, the strings with \u escapes and   *)
(* the strings with short escapes, closed or cut.                          *)
(***************************************************************************)
InitText == InitTok \/ InitStr \/ InitEsc

SpecText == InitText /\ [][Next]_vars

\* the cursors at which a rule can be entered
Cursors(text) == 1..(Len(text) + 1)

\* a rule entered at p leaves the cursor at p or behind it, within the
\* text or at its end
Forward(text, p, result) == p <= result.pos /\ result.pos <= Len(text) + 1

\* a rule that succeeds from p has consumed a symbol
Consuming(text, p, result) ==
    /\ Forward(text, p, result)
    /\ (result.kind = "ok" => result.pos > p)

NativeBool(b) == [native |-> "bool", b |-> b, s |-> <<>>, n |-> 0]
NativeStr(s) == [native |-> "str", b |-> FALSE, s |-> s, n |-> 0]
NativeI32(n) == [native |-> "i32", b |-> FALSE, s |-> <<>>, n |-> n]
NativeNone == [native |-> "none", b |-> FALSE, s |-> <<>>, n |-> 0]

\* the decimal digits of a positive integer
RECURSIVE IntDigits(_)
IntDigits(n) == IF n < 10 THEN <<n>> ELSE Append(IntDigits(n \div 10), n % 10)

\* f64::from(i32): every i32 is a double
F64FromI32(n) ==
    IF n = 0 THEN F64Zero(FALSE)
    ELSE LET ds == IntDigits(IF n < 0 THEN 0 - n ELSE n)
             tz == TrailingZeros(ds)
         IN  F64Fin(n < 0, SubSeq(ds, 1, Len(ds) - tz), tz)

\* ToJson::to_json for bool, str, i32 and Option::None
to_json(value) ==
    IF value.native = "bool" THEN JBoolean(value.b)
    ELSE IF value.native = "str" THEN JString(value.s)
    ELSE IF value.native = "i32" THEN JNumber(F64FromI32(value.n))
    ELSE JNull

object == JObject(<<>>)

get(self, property) ==
    IF self.type = "Object" THEN MapGet(self.props, property) ELSE NoVal

\* set turning whatever it is called on into an object with the property
set_OnAnyValue(self, property, value) ==
    JObject(BTreeInsert(IF self.type = "Object" THEN self.props ELSE <<>>,
                        property, to_json(value)))

set(self, property, value) ==
    IF self.type = "Object"
    THEN JObject(BTreeInsert(self.props, property, to_json(value)))
    ELSE self

\* the values of the tests of ast.rs: "bar", 123, true, and None, 0, -10
NativeValues ==
    { NativeStr(<<Ch.b, Ch.a, Ch.r>>), NativeI32(123), NativeBool(TRUE),
      NativeNone, NativeI32(0), NativeI32(-10) }

\* "foo", "baz", and a key before and a key behind them in key order
KeyFoo == <<Ch.f, 111, 111>>
KeyBaz == <<Ch.b, Ch.a, 122>>
SetKeys == {KeyFoo, KeyBaz, KeyA}
GetKeys == SetKeys \cup {<<122>>}

\* Json::Null, "hello", 123, true, [1, 2, 3] and Json::object()
SetSelves ==
    { JNull, JString(<<104, Ch.e, Ch.l, Ch.l, 111>>), to_json(NativeI32(123)),
      JBoolean(TRUE),
      JArray(<<to_json(NativeI32(1)), to_json(NativeI32(2)), to_json(NativeI32(3))>>),
      object }

InitSet == \E self \in SetSelves : Built(self)

\* tree = tree.set(property, value)
DoSet ==
    /\ pc = "built"
    /\ \E property \in SetKeys : \E value \in NativeValues :
          /\ tree' = set(tree, property, value)
          /\ call' = [op |-> "set", self |-> tree, property |-> property,
                      value |-> to_json(value), result |-> tree']
    /\ UNCHANGED <<input, src, pc, parsed, indent, output, reparsed, spaced, respaced,
                   process>>

\* tree.get(property)
DoGet ==
    /\ pc = "built"
    /\ \E property \in GetKeys :
          call' = [op |-> "get", self |-> tree, property |-> property,
                   value |-> NoVal, result |-> get(tree, property)]
    /\ UNCHANGED <<input, src, pc, parsed, tree, indent, output, reparsed, spaced,
                   respaced, process>>

NextSet == DoSet \/ DoGet

SpecSet == InitSet /\ [][NextSet]_vars

\* the values an object holds under a key: none, or one
HeldAt(v, key) == {v.props[j].value : j \in {i \in 1..Len(v.props) : v.props[i].key = key}}

EntriesAt(v, key) == Cardinality({i \in 1..Len(v.props) : v.props[i].key = key})

(***************************************************************************)
(* C17.  Json::set called on a value that is not an object (Null, Boolean, *)
(* String, Number, Array) returns that value unchanged, and Json::get on   *)
(* such a value returns None; on an object, set(k, v) returns an object in *)
(* which get(k) is v and every other key keeps its previous value, and get *)
(* of an absent key returns None.                                          *)
(***************************************************************************)
C17_GetSet ==
    /\ (call.op = "set" =>
          IF call.self.type # "Object"
          THEN call.result = call.self /\ tree = call.self
          ELSE /\ call.result.type = "Object"
               /\ tree = call.result
               /\ HeldAt(call.result, call.property) = {call.value}
               /\ get(call.result, call.property) = call.value
               /\ \A key \in GetKeys :
                     /\ EntriesAt(call.result, key) <= 1
                     /\ (key # call.property =>
                            /\ HeldAt(call.result, key) = HeldAt(call.self, key)
                            /\ get(call.result, key) = get(call.self, key)))
    /\ (call.op = "get" =>
          IF call.self.type # "Object" THEN call.result = NoVal
          ELSE IF HeldAt(call.self, call.property) = {} THEN call.result = NoVal
          ELSE HeldAt(call.self, call.property) = {call.result})

\* set("baz", 123) on the object {"baz": true, "foo": "bar"}
C17_Witness ==
    /\ call.op = "set"
    /\ call.self = JObject(<<Entry(KeyBaz, JBoolean(TRUE)),
                             Entry(KeyFoo, JString(<<Ch.b, Ch.a, Ch.r>>))>>)
    /\ call.property = KeyBaz
    /\ tree = JObject(<<Entry(KeyBaz, JNumber(F64Fin(FALSE, <<1, 2, 3>>, 0))),
                        Entry(KeyFoo, JString(<<Ch.b, Ch.a, Ch.r>>))>>)

\* the strings of a tree, keys and values, in the order the printer meets them
RECURSIVE StringsOf(_)
StringsOf(v) ==
    IF v.type = "String" THEN <<v.s>>
    ELSE IF v.type = "Array" THEN Flatten([j \in 1..Len(v.items) |-> StringsOf(v.items[j])])
    ELSE IF v.type = "Object"
         THEN Flatten([j \in 1..Len(v.props) |->
                          <<v.props[j].key>> \o StringsOf(v.props[j].value)])
    ELSE <<>>

(***************************************************************************)
(* C18.  For every tree v with finite numbers, built or parsed, and every  *)
(* indent w >= 0, also 0, parse(json_to_string(v, w)) succeeds and returns *)
(* a tree equal to v; every string of v, as a value or as a key, with      *)
(* quotes, backslashes, control characters or runs of escaped characters,  *)
(* is the same string in the tree parsed back.                             *)
(***************************************************************************)
C18_PrintThenParse ==
    pc = "done" =>
        /\ reparsed.kind = "ok"
        /\ reparsed.pos = Len(output) + 1
        /\ JsonEq(reparsed.val, tree)
        /\ StringsOf(reparsed.val) = StringsOf(tree)

\* ["\"\\", -1.5] and the string of U+0000 U+001F, printed with indent 0
\* and parsed back
C18_Witness ==
    /\ pc = "done"
    /\ indent = 0
    /\ tree = JArray(<<JString(<<Ch.quote, Ch.backslash>>), JString(<<0, 31>>)>>)
    /\ reparsed.val = tree
    /\ Len(output) > 20

=============================================================================
